---- MODULE Spec2Model ----
(***************************************************************************)
(* State-machine model of monitor.py: the terminal resource monitor with   *)
(* a CPU alert threshold.                                                  *)
(*                                                                         *)
(* Percentages are psutil floats with one decimal; they are modelled in    *)
(* tenths of a percent (49.9% is 499).  CPU_THRESHOLD is an integer        *)
(* percent, so the comparison `x < CPU_THRESHOLD` is `x < 10*threshold`.   *)
(* Timestamps (datetime.now(), logging's asctime) are abstracted by the    *)
(* ordinal of the tick that produced them.                                 *)
(***************************************************************************)
EXTENDS Integers, Sequences, FiniteSets, TLC

VARIABLES
    pc,               \* position of the main program
    exc,              \* exception in flight: "none", "KeyboardInterrupt", "MetricsUnavailable"
    exc_at,           \* where it was raised: "none", "start", "sleep", or a metric category
    live,             \* the Live display: "unacquired", "active", "released"
    printed,          \* the final status message has been printed
    args_threshold,   \* args.threshold as parsed from the command line
    CPU_THRESHOLD,    \* the module-level global
    log,              \* sistema_alertas.log: sequence of alert records
    clock,            \* number of update_layout calls begun
    hist,             \* hist[k]: cpu_total sampled by tick k, NoSample if it got none
    layout_header,    \* layout["header"]
    layout_cpu,       \* layout["cpu"]
    layout_memory,    \* layout["memory"]
    layout_io,        \* layout["io"]
    layout_right_col, \* layout["right_col"]
    procs,            \* get_processes_panel: the collected list
    top_n             \* get_processes_panel: its parameter

vars == <<pc, exc, exc_at, live, printed, args_threshold, CPU_THRESHOLD, log,
          clock, hist, layout_header, layout_cpu, layout_memory, layout_io,
          layout_right_col, procs, top_n>>

---------------------------------------------------------------------------
\* Bounds of the model
MaxTicks == 2
MaxProcs == 3
MaxTopN == 4

\* Python's None in a nullable numeric field, and "no cpu_total this tick"
None == 0 - 1
NoSample == 0 - 1

\* Input domains (tenths of a percent, except ThresholdArgs: integer percent)
ThresholdArgs == {0 - 5, 30, 85, 100, 150}
CpuTotals == {400, 850, 900, 1000}
CoreVectors == {<<400, 499>>, <<500, 849>>, <<850, 1000>>, <<0, 900>>}
MemPercents == {599, 900}
CpuPercents == {None, 0, 5, 123}
MemoryPercents == {None, 21}

Categories == {"cpu", "memory", "swap", "network", "disk", "processes"}
Failures == {"KeyboardInterrupt", "MetricsUnavailable"}

Min(a, b) == IF a < b THEN a ELSE b
Max(a, b) == IF a > b THEN a ELSE b

---------------------------------------------------------------------------
\* Configuration (module level)

ConfigThresholdClamped(a) == Max(0, Min(100, a))

\* CPU_THRESHOLD = args.threshold: argparse's type=int value, passed through
ConfigThreshold(a) == a

DefaultTopN == 10

---------------------------------------------------------------------------
\* get_cpu_panel

ExceedsOrEquals(cpu_total, threshold) == cpu_total >= 10 * threshold

\* if cpu_total > CPU_THRESHOLD
Exceeds(cpu_total, threshold) == cpu_total > 10 * threshold

BorderColorInclusive(cpu_total, threshold) ==
    IF cpu_total >= 10 * threshold THEN "bright_red" ELSE "blue"

\* border_color = "blue"; if ...: border_color = "bright_red"
BorderColor(cpu_total, threshold) ==
    IF Exceeds(cpu_total, threshold) THEN "bright_red" ELSE "blue"

AlertRecord(tick, cpu_total, threshold) ==
    [tick |-> tick, value |-> cpu_total, threshold |-> threshold]

AlertLogOnce(l, tick, cpu_total, threshold) ==
    IF Exceeds(cpu_total, threshold) /\ l = <<>>
    THEN Append(l, AlertRecord(tick, cpu_total, threshold))
    ELSE l

\* if ...: logging.warning(f"ALERTA CPU: ...") appends one line to the log
AlertLog(l, tick, cpu_total, threshold) ==
    IF Exceeds(cpu_total, threshold)
    THEN Append(l, AlertRecord(tick, cpu_total, threshold))
    ELSE l

\* color = "green" if core_usage < 50 else "yellow" if core_usage < CPU_THRESHOLD else "red"
CoreColor(core_usage, threshold) ==
    IF core_usage < 500 THEN "green"
    ELSE IF core_usage < 10 * threshold THEN "yellow"
    ELSE "red"

\* '|' * int(core_usage / 5)
BarLength(core_usage) == core_usage \div 50

CoreRow(i, core_usage, threshold) ==
    [core |-> i - 1, usage |-> core_usage,
     color |-> CoreColor(core_usage, threshold), bar |-> BarLength(core_usage)]

CpuPanel(cpu_total, cpu_per_core, threshold) ==
    [built |-> TRUE, total |-> cpu_total, threshold |-> threshold,
     border |-> BorderColor(cpu_total, threshold),
     rows |-> [i \in 1..Len(cpu_per_core) |-> CoreRow(i, cpu_per_core[i], threshold)]]

EmptyCpuPanel ==
    [built |-> FALSE, total |-> NoSample, threshold |-> 0, border |-> "none",
     rows |-> <<>>]

---------------------------------------------------------------------------
\* get_memory_panel, get_network_disk_panel (byte counts are not modelled)

MemoryPanel(mem_percent) ==
    [built |-> TRUE, percent |-> mem_percent, border |-> "green"]

EmptyMemoryPanel == [built |-> FALSE, percent |-> 0, border |-> "none"]

IoPanel == [built |-> TRUE, border |-> "cyan"]

EmptyIoPanel == [built |-> FALSE, border |-> "none"]

---------------------------------------------------------------------------
\* get_processes_panel

\* key=lambda p: p['cpu_percent'] or 0
SortKey(p) == IF p.cpu_percent = None THEN 0 ELSE p.cpu_percent

InsertAtUnstable(s, p) ==
    1 + Cardinality({i \in 1..Len(s) : SortKey(s[i]) > SortKey(p)})

\* Position at which p goes into the descending list s so that it follows
\* every element whose key is at least its own.
InsertAt(s, p) ==
    1 + Cardinality({i \in 1..Len(s) : SortKey(s[i]) >= SortKey(p)})

InsertDesc(s, p) ==
    LET k == InsertAt(s, p)
    IN  SubSeq(s, 1, k - 1) \o <<p>> \o SubSeq(s, k, Len(s))

RECURSIVE SortedDesc(_)
\* sorted(procs, key=..., reverse=True): stable, descending
SortedDesc(s) ==
    IF s = <<>> THEN <<>>
    ELSE InsertDesc(SortedDesc(SubSeq(s, 1, Len(s) - 1)), s[Len(s)])

\* s[:n]
Slice(s, n) ==
    IF n >= 0 THEN SubSeq(s, 1, Min(n, Len(s)))
    ELSE SubSeq(s, 1, Max(0, Len(s) + n))

TopProcs(ps, n) == Slice(SortedDesc(ps), n)

\* cpu = p['cpu_percent'] if p['cpu_percent'] is not None else 0.0 (same for mem)
ProcRow(p) ==
    [pid |-> p.pid,
     cpu |-> IF p.cpu_percent = None THEN 0 ELSE p.cpu_percent,
     mem |-> IF p.memory_percent = None THEN 0 ELSE p.memory_percent]

ProcessesPanel(ps, n) ==
    LET top_procs == TopProcs(ps, n)
    IN  [built |-> TRUE, top_n |-> n, border |-> "white",
         rows |-> [i \in 1..Len(top_procs) |-> ProcRow(top_procs[i])]]

\* Panel("Cargando procesos...")
LoadingPanel == [built |-> FALSE, top_n |-> 0, border |-> "none", rows |-> <<>>]

---------------------------------------------------------------------------
\* Process snapshots as psutil.process_iter yields them: pids are unique

ProcInfos == [cpu_percent : CpuPercents, memory_percent : MemoryPercents]

Snapshot(f) ==
    [i \in 1..Len(f) |->
        [pid |-> 100 - i, cpu_percent |-> f[i].cpu_percent,
         memory_percent |-> f[i].memory_percent]]

Snapshots == UNION {{Snapshot(f) : f \in [1..n -> ProcInfos]} : n \in 0..MaxProcs}

TickSnapshots ==
    { <<>>,
      Snapshot(<<[cpu_percent |-> 5, memory_percent |-> 21],
                 [cpu_percent |-> 123, memory_percent |-> None],
                 [cpu_percent |-> 5, memory_percent |-> None]>>) }

---------------------------------------------------------------------------
\* update_layout: one tick, possibly cut short by an exception

\* Number of panels already placed when the call for a category raises
StageBefore(cat) ==
    CASE cat = "cpu" -> 0
      [] cat \in {"memory", "swap"} -> 1
      [] cat \in {"network", "disk"} -> 2
      [] cat = "processes" -> 3

LogAtEnd(stage, l, tick, cpu_total, threshold) ==
    IF stage >= 4 THEN AlertLog(l, tick, cpu_total, threshold) ELSE l

\* The alert is logged inside get_cpu_panel, the first panel built
LogAt(stage, l, tick, cpu_total, threshold) ==
    IF stage >= 1 THEN AlertLog(l, tick, cpu_total, threshold) ELSE l

\* The effects of update_layout up to and including `stage` panels
Tick(stage, cpu_total, cpu_per_core, mem_percent, ps) ==
    /\ clock' = clock + 1
    /\ layout_header' = clock + 1
    /\ hist' = Append(hist, IF stage >= 1 THEN cpu_total ELSE NoSample)
    /\ log' = LogAt(stage, log, clock + 1, cpu_total, CPU_THRESHOLD)
    /\ layout_cpu' = IF stage >= 1
                     THEN CpuPanel(cpu_total, cpu_per_core, CPU_THRESHOLD)
                     ELSE layout_cpu
    /\ layout_memory' = IF stage >= 2 THEN MemoryPanel(mem_percent) ELSE layout_memory
    /\ layout_io' = IF stage >= 3 THEN IoPanel ELSE layout_io
    /\ layout_right_col' = IF stage >= 4
                           THEN ProcessesPanel(ps, DefaultTopN)
                           ELSE layout_right_col
    /\ procs' = IF stage >= 4 THEN ps ELSE procs
    /\ top_n' = IF stage >= 4 THEN DefaultTopN ELSE top_n

UpdateLayout ==
    /\ pc = "running"
    /\ clock < MaxTicks
    /\ \E cpu_total \in CpuTotals, cpu_per_core \in CoreVectors,
          mem_percent \in MemPercents, ps \in TickSnapshots :
            Tick(4, cpu_total, cpu_per_core, mem_percent, ps)
    /\ pc' = "sleep"
    /\ UNCHANGED <<exc, exc_at, live, printed, args_threshold, CPU_THRESHOLD>>

\* A provider call raises, or the interrupt arrives while it runs
UpdateLayoutRaises ==
    /\ pc = "running"
    /\ clock < MaxTicks
    /\ \E cat \in Categories, kind \in Failures :
         LET stage == StageBefore(cat) IN
         /\ \E cpu_total \in (IF stage >= 1 THEN CpuTotals ELSE {400}),
               cpu_per_core \in (IF stage >= 1 THEN CoreVectors ELSE {<<400, 499>>}),
               mem_percent \in (IF stage >= 2 THEN MemPercents ELSE {599}) :
                 Tick(stage, cpu_total, cpu_per_core, mem_percent, <<>>)
         /\ exc' = kind
         /\ exc_at' = cat
    /\ pc' = "with_exit"
    /\ UNCHANGED <<live, printed, args_threshold, CPU_THRESHOLD>>

---------------------------------------------------------------------------
\* __main__

\* with Live(layout, refresh_per_second=2, screen=True) as live:
LiveEnter ==
    /\ pc = "start"
    /\ live' = "active"
    /\ pc' = "running"
    /\ UNCHANGED <<exc, exc_at, printed, args_threshold, CPU_THRESHOLD, log, clock,
                   hist, layout_header, layout_cpu, layout_memory, layout_io,
                   layout_right_col, procs, top_n>>

\* The interrupt arrives before the with block is entered
StartInterrupted ==
    /\ pc = "start"
    /\ exc' = "KeyboardInterrupt"
    /\ exc_at' = "start"
    /\ pc' = "except"
    /\ UNCHANGED <<live, printed, args_threshold, CPU_THRESHOLD, log, clock,
                   hist, layout_header, layout_cpu, layout_memory, layout_io,
                   layout_right_col, procs, top_n>>

\* time.sleep(0.5) returns
Sleep ==
    /\ pc = "sleep"
    /\ pc' = "running"
    /\ UNCHANGED <<exc, exc_at, live, printed, args_threshold, CPU_THRESHOLD, log,
                   clock, hist, layout_header, layout_cpu, layout_memory, layout_io,
                   layout_right_col, procs, top_n>>

\* time.sleep(0.5) is interrupted
SleepInterrupted ==
    /\ pc = "sleep"
    /\ exc' = "KeyboardInterrupt"
    /\ exc_at' = "sleep"
    /\ pc' = "with_exit"
    /\ UNCHANGED <<live, printed, args_threshold, CPU_THRESHOLD, log, clock,
                   hist, layout_header, layout_cpu, layout_memory, layout_io,
                   layout_right_col, procs, top_n>>

LiveKept(l) == l

\* Live.__exit__: the display is stopped and the screen restored
LiveStopped(l) == IF l = "active" THEN "released" ELSE l

\* The exception leaves the with block
LiveExit ==
    /\ pc = "with_exit"
    /\ live' = LiveStopped(live)
    /\ pc' = "except"
    /\ UNCHANGED <<exc, exc_at, printed, args_threshold, CPU_THRESHOLD, log, clock,
                   hist, layout_header, layout_cpu, layout_memory, layout_io,
                   layout_right_col, procs, top_n>>

CatchesAny(e) == TRUE

\* except KeyboardInterrupt:
Catches(e) == e = "KeyboardInterrupt"

\* The handler prints the final message; anything else ends in a traceback
ExceptClause ==
    /\ pc = "except"
    /\ IF Catches(exc)
       THEN printed' = TRUE /\ pc' = "stopped"
       ELSE printed' = printed /\ pc' = "crashed"
    /\ UNCHANGED <<exc, exc_at, live, args_threshold, CPU_THRESHOLD, log, clock,
                   hist, layout_header, layout_cpu, layout_memory, layout_io,
                   layout_right_col, procs, top_n>>

\* State once the module body has run and make_layout() has returned
Init ==
    /\ pc = "start"
    /\ exc = "none"
    /\ exc_at = "none"
    /\ live = "unacquired"
    /\ printed = FALSE
    /\ args_threshold \in ThresholdArgs
    /\ CPU_THRESHOLD = ConfigThreshold(args_threshold)
    /\ log = <<>>
    /\ clock = 0
    /\ hist = <<>>
    /\ layout_header = 0
    /\ layout_cpu = EmptyCpuPanel
    /\ layout_memory = EmptyMemoryPanel
    /\ layout_io = EmptyIoPanel
    /\ layout_right_col = LoadingPanel
    /\ procs = <<>>
    /\ top_n = DefaultTopN

Next ==
    \/ LiveEnter
    \/ StartInterrupted
    \/ UpdateLayout
    \/ UpdateLayoutRaises
    \/ Sleep
    \/ SleepInterrupted
    \/ LiveExit
    \/ ExceptClause

Spec == Init /\ [][Next]_vars

---------------------------------------------------------------------------
\* get_processes_panel on its own, over every snapshot and top_n

DefaultThreshold == 85

InitRank ==
    /\ pc = "rank"
    /\ exc = "none"
    /\ exc_at = "none"
    /\ live = "unacquired"
    /\ printed = FALSE
    /\ args_threshold = DefaultThreshold
    /\ CPU_THRESHOLD = ConfigThreshold(args_threshold)
    /\ log = <<>>
    /\ clock = 0
    /\ hist = <<>>
    /\ layout_header = 0
    /\ layout_cpu = EmptyCpuPanel
    /\ layout_memory = EmptyMemoryPanel
    /\ layout_io = EmptyIoPanel
    /\ layout_right_col = LoadingPanel
    /\ procs \in Snapshots
    /\ top_n \in 1..MaxTopN

GetProcessesPanel ==
    /\ pc = "rank"
    /\ layout_right_col' = ProcessesPanel(procs, top_n)
    /\ pc' = "ranked"
    /\ UNCHANGED <<exc, exc_at, live, printed, args_threshold, CPU_THRESHOLD, log,
                   clock, hist, layout_header, layout_cpu, layout_memory, layout_io,
                   procs, top_n>>

NextRank == GetProcessesPanel

SpecRank == InitRank /\ [][NextRank]_vars

---------------------------------------------------------------------------
\* Properties

Running == {"start", "running", "sleep"}
Terminal == {"stopped", "crashed"}

\* Indices of the log records written by tick k
RecordsOfTick(k) == {i \in 1..Len(log) : log[i].tick = k}

\* Ticks that obtained a cpu_total, and those whose cpu_total exceeded the threshold
SampledTicks == {k \in 1..Len(hist) : hist[k] # NoSample}
OverloadedTicks == {k \in SampledTicks : hist[k] > 10 * CPU_THRESHOLD}

\* C1: every tick that evaluated a cpu_total wrote exactly one alert record if
\* cpu_total > threshold and none if cpu_total <= threshold (equality never alerts).
C1_AlertIffExceeds ==
    \A k \in SampledTicks :
        Cardinality(RecordsOfTick(k)) = IF hist[k] > 10 * CPU_THRESHOLD THEN 1 ELSE 0

\* A run with a tick at exactly the threshold (no record) and one above it (one record)
C1_Witness ==
    /\ \E k \in SampledTicks : hist[k] = 10 * CPU_THRESHOLD /\ RecordsOfTick(k) = {}
    /\ \E k \in SampledTicks : hist[k] > 10 * CPU_THRESHOLD /\ RecordsOfTick(k) # {}

C2_Count ==
    /\ Len(log) = Cardinality(OverloadedTicks)
    /\ \A k \in OverloadedTicks : RecordsOfTick(k) # {}

C2_Grows == Len(log') >= Len(log) /\ SubSeq(log', 1, Len(log)) = log

\* C2: the log holds as many records as there were ticks whose cpu_total exceeded
\* the threshold, one for each of them whatever was logged before, and every step
\* leaves the existing records in place (the log only grows).
C2_Stateless == [](C2_Count) /\ [][C2_Grows]_vars

\* Two consecutive overloaded ticks, two records
C2_Witness ==
    /\ Len(hist) >= 2
    /\ {1, 2} \subseteq OverloadedTicks
    /\ Len(log) >= 2

\* C3: the rows of the process panel number min(top_n, len(procs)), descend by
\* cpu_percent (None counted as 0), keep snapshot order among equal cpu_percent,
\* and each row is a process of the snapshot (no padding).
C3_Ranked ==
    layout_right_col.built =>
        LET rows == layout_right_col.rows
            Pos(pid) == CHOOSE q \in 1..Len(procs) : procs[q].pid = pid
        IN  /\ Len(rows) = Min(top_n, Len(procs))
            /\ \A i \in 1..Len(rows) :
                 \E q \in 1..Len(procs) :
                    /\ procs[q].pid = rows[i].pid
                    /\ rows[i].cpu = SortKey(procs[q])
            /\ \A i, j \in 1..Len(rows) :
                 i < j =>
                    /\ rows[i].cpu >= rows[j].cpu
                    /\ rows[i].pid # rows[j].pid
                    /\ rows[i].cpu = rows[j].cpu => Pos(rows[i].pid) < Pos(rows[j].pid)

\* Three processes, top_n = 2, the two rows shown tie, one of them on a None
C3_Witness ==
    /\ layout_right_col.built
    /\ Len(procs) = 3
    /\ top_n = 2
    /\ Len(layout_right_col.rows) = 2
    /\ layout_right_col.rows[1].cpu = layout_right_col.rows[2].cpu
    /\ \E q \in 1..Len(procs) : procs[q].cpu_percent = None
    /\ procs[3].cpu_percent = 0

\* C4 (as claimed): a core at or above the threshold is red, otherwise green
\* below 50 and yellow from 50 up.
C4_CoreColourClaim ==
    \A i \in 1..Len(layout_cpu.rows) :
        LET r == layout_cpu.rows[i]
        IN  r.color = IF r.usage >= 10 * CPU_THRESHOLD THEN "red"
                      ELSE IF r.usage < 500 THEN "green"
                      ELSE "yellow"

\* C5 (as claimed): the memory border is green below 60, yellow below 85, red from 85.
C5_MemoryBorderClaim ==
    layout_memory.built =>
        layout_memory.border = IF layout_memory.percent < 600 THEN "green"
                               ELSE IF layout_memory.percent < 850 THEN "yellow"
                               ELSE "red"

\* C6: the CPU panel shows the cpu_total of the last tick that sampled one; its
\* border is blue iff that cpu_total <= threshold and otherwise bright_red, which
\* is none of the per-core colours; and it is bright_red exactly when that tick
\* wrote an alert record.
C6_BorderMatchesAlert ==
    layout_cpu.built =>
        /\ SampledTicks # {}
        /\ LET k == CHOOSE m \in SampledTicks : \A n \in SampledTicks : n <= m
           IN  /\ layout_cpu.total = hist[k]
               /\ hist[k] <= 10 * CPU_THRESHOLD => layout_cpu.border = "blue"
               /\ hist[k] > 10 * CPU_THRESHOLD =>
                    /\ layout_cpu.border = "bright_red"
                    /\ layout_cpu.border \notin {"blue", "green", "yellow", "red"}
               /\ layout_cpu.border = "bright_red" <=> RecordsOfTick(k) # {}

\* threshold 85, cpu_total 90: alert border and a record, with every core green
C6_Witness ==
    /\ layout_cpu.built
    /\ CPU_THRESHOLD = 85
    /\ layout_cpu.total = 900
    /\ layout_cpu.border = "bright_red"
    /\ \A i \in 1..Len(layout_cpu.rows) : layout_cpu.rows[i].color = "green"
    /\ Len(log) = 1

\* C7 (as claimed): once the program is out of the loop an interrupt is the
\* cause, and the only terminal state is the stop by interrupt.
C7_OnlyInterruptStops ==
    /\ pc \notin Running => exc = "KeyboardInterrupt"
    /\ pc \in Terminal => pc = "stopped"

\* C7 (amended): the loop is left only with an exception in flight, an interrupt
\* or a failure of a metrics call; the interrupt ends in the stop with the final
\* message, the failure in a crash without it.
C7_StopsOnInterruptOrFailure ==
    /\ pc \in Running => exc = "none"
    /\ pc \notin Running => exc \in Failures
    /\ pc = "stopped" => exc = "KeyboardInterrupt" /\ printed
    /\ pc = "crashed" =>
         exc = "MetricsUnavailable" /\ exc_at \in Categories /\ ~printed

\* A metrics failure in the second tick has crashed the program
C7_Witness ==
    /\ pc = "crashed"
    /\ exc = "MetricsUnavailable"
    /\ Len(hist) = 2

\* C8: the Live display is active only inside the with block; on every way out
\* of the loop it has been released before the except clause runs, so before the
\* final message is printed and before the process ends.
C8_LiveReleased ==
    /\ live = "active" <=> pc \in {"running", "sleep", "with_exit"}
    /\ pc \in {"except", "stopped", "crashed"} /\ exc_at # "start" => live = "released"
    /\ printed => live # "active"

\* Interrupted during the sleep: released, then the message printed
C8_Witness ==
    /\ pc = "stopped"
    /\ exc_at = "sleep"
    /\ printed
    /\ live = "released"

ThresholdAsParsed ==
    /\ CPU_THRESHOLD = args_threshold
    /\ \A i \in 1..Len(log) : log[i].threshold = args_threshold
    /\ layout_cpu.built => layout_cpu.threshold = args_threshold

\* C10 (as claimed): the threshold is the start-up value in every tick and lies
\* in 0..100.
C10_ThresholdInRange ==
    /\ ThresholdAsParsed
    /\ layout_cpu.built => layout_cpu.threshold \in 0..100

\* C10 (amended): the threshold is the integer given to --threshold, unchanged
\* and unvalidated, in every tick; it lies in 0..100 exactly if that integer does.
C10_ThresholdPassedThrough ==
    /\ ThresholdAsParsed
    /\ CPU_THRESHOLD \in 0..100 <=> args_threshold \in 0..100

\* --threshold 150: two ticks at 100% and no alert
C10_Witness ==
    /\ CPU_THRESHOLD = 150
    /\ Len(hist) = 2
    /\ \A k \in 1..2 : hist[k] = 1000
    /\ layout_cpu.built
    /\ log = <<>>

====
